---- MODULE Spec2Model ----
(***************************************************************************)
(* The aws_iam_role resource of aws/resource_aws_iam_role.go as a state    *)
(* machine: the resource data d (and its prior state old), the IAM side    *)
(* (the role and its children), the IAM calls issued so far with their     *)
(* answers, and the position of the running operation.  One action is one  *)
(* IAM call of the handler together with the handling of its answer.       *)
(***************************************************************************)
EXTENDS Naturals, Sequences, FiniteSets

VARIABLES
  op,        \* the operation running: "Create", "Update" or "Delete"
  pc,        \* the call the operation is about to make, or "done"
  d,         \* the schema.ResourceData: id and attributes (planned values)
  old,       \* the prior state, what d.GetChange returns as old
  plan,      \* d as the operation was given it (Read overwrites d)
  iam,       \* the IAM side: the role, its scalars and its children
  log,       \* the IAM calls issued so far, each with its answer
  todo,      \* what the running loop has still to go through
  add,       \* the additions an Update step makes after its removals
  errs,      \* the multierror a bulk put or attach collects and returns
  attempts,  \* attempts made so far inside the running resource.Retry
  listed,    \* the children the cascade's list calls returned
  got,       \* apiObjects collected by resourceAwsIamRoleListInlinePolicies
  ret        \* "running", or what the operation returned: "nil" / "error"

vars == <<op, pc, d, old, plan, iam, log, todo, add, errs, attempts, listed, got, ret>>

----------------------------------------------------------------------------
\* Bounds of the model.

\* Attempts resource.Retry makes before its window has certainly closed.
MaxAttempts == 2
\* Attributes that differ between prior and planned state in one Update.
MaxChanged == 2

RoleName == "role"
PolicyArns == {"arn1", "arn2"}
PolicyNames == {"p1", "p2"}
PolicyDocs == {"doc1", "doc2"}
InstanceProfiles == {"ip1", "ip2"}

\* Answers of IAM: success, the two error codes the code singles out for a
\* role, the two it retries on, and any other error.
OK == "ok"
NoSuchEntity == "NoSuchEntity"
DeleteConflict == "DeleteConflict"
MalformedPolicyDocument == "MalformedPolicyDocument"
OtherError == "OtherError"
\* No answer at all: the call was still in flight when the window of the
\* resource.Retry around it closed.
NoAnswer == "NoAnswer"

----------------------------------------------------------------------------
\* Helpers.

\* The orders a Set.List() or a paginated list answer may come in.
Orders(S) ==
  {s \in [1..Cardinality(S) -> S] : \A i, j \in 1..Cardinality(S) : i # j => s[i] # s[j]}

Range(s) == {s[i] : i \in 1..Len(s)}

\* One IAM call: the API, the role it names, the child it is about (with
\* the document put, if any) and the answer.
Entry(c, role, a, doc, r) ==
  [call |-> c, role |-> role, arg |-> a, doc |-> doc, res |-> r]

\* Inline policy sets as configured: entries of name and policy, one per name.
InlineSets ==
  {S \in SUBSET [name : PolicyNames, policy : PolicyDocs] :
     \A x, y \in S : x.name = y.name => x = y}

NoRole ==
  [exists |-> FALSE, name |-> "", assume_role_policy |-> "", description |-> "",
   max_session_duration |-> "", permissions_boundary |-> "", tags |-> "",
   inline |-> {}, attached |-> {}, profiles |-> {}]

HasChildren == iam.inline # {} \/ iam.attached # {} \/ iam.profiles # {}

NoLists == [profiles |-> {}, attached |-> {}, inline |-> {}]

\* An operation returns.
Return(r) == /\ pc' = "done"
             /\ ret' = r

----------------------------------------------------------------------------
\* Answers IAM can give, by kind of call.

\* A call on the role itself (get, list, update, put, attach).
RoleAnswers == IF iam.exists THEN {OK, OtherError} ELSE {NoSuchEntity, OtherError}

\* A call on a child of the role: the child may have been removed out of
\* band since it was listed, and the answer is then NoSuchEntity.
ChildAnswers(present) ==
  IF iam.exists /\ present THEN {OK, NoSuchEntity, OtherError}
  ELSE {NoSuchEntity, OtherError}

\* DeleteRole: refused with DeleteConflict while children are (seen as) present.
DeleteRoleAnswers ==
  IF ~iam.exists THEN {NoSuchEntity, OtherError}
  ELSE IF HasChildren THEN {DeleteConflict, OtherError}
  ELSE {OK, DeleteConflict, OtherError}

\* CreateRole: the principal of the trust policy may not have propagated yet;
\* a role of that name that exists already is an error (EntityAlreadyExists).
CreateRoleAnswers ==
  IF iam.exists THEN {OtherError} ELSE {OK, MalformedPolicyDocument, OtherError}

Issue(c, role, a, doc, r) == log' = Append(log, Entry(c, role, a, doc, r))

----------------------------------------------------------------------------
\* Delete: resourceAwsIamRoleDelete and deleteAwsIamRole.

\* deleteAwsIamRole after deleteAwsIamRoleInstanceProfiles returned nil: the
\* policies are detached and deleted only with forceDetach.
AfterInstanceProfilesAlwaysDetach(forceDetach) == "ListAttachedRolePolicies"

AfterInstanceProfiles(forceDetach) ==
  IF forceDetach THEN "ListAttachedRolePolicies" ELSE "DeleteRole"

\* What each loop of the cascade does with the answer to one call: go on
\* with the next item, return nil at once, or return the error.
RemoveProfileVerdictReturnOnGone(r) ==
  IF r = OK THEN "continue" ELSE IF r = NoSuchEntity THEN "return" ELSE "error"

RemoveProfileVerdict(r) ==
  IF r \in {OK, NoSuchEntity} THEN "continue" ELSE "error"

DetachVerdictIgnoreErrors(r) == "continue"

DetachVerdict(r) ==
  IF r \in {OK, NoSuchEntity} THEN "continue" ELSE "error"

DeletePolicyVerdict(r) ==
  IF r = OK THEN "continue" ELSE IF r = NoSuchEntity THEN "return" ELSE "error"

\* resourceAwsIamRoleDelete: what it returns for deleteAwsIamRole's result.
DeleteReturnAlwaysNil(code) == "nil"

DeleteReturnErrorOnGone(code) == IF code = OK THEN "nil" ELSE "error"

DeleteReturn(code) ==
  IF code = OK \/ code = NoSuchEntity THEN "nil" ELSE "error"

\* deleteAwsIamRoleInstanceProfiles: the list call.
ListInstanceProfilesForRole ==
  /\ op = "Delete" /\ pc = "ListInstanceProfilesForRole"
  /\ \E r \in RoleAnswers :
       /\ Issue("ListInstanceProfilesForRole", d.id, "", "", r)
       /\ IF r = OK
          THEN /\ \E s \in Orders(iam.profiles) : todo' = s
               /\ listed' = [listed EXCEPT !.profiles = iam.profiles]
               /\ pc' = "RemoveRoleFromInstanceProfile"
               /\ ret' = ret
          ELSE /\ UNCHANGED <<todo, listed>>
               /\ IF r = NoSuchEntity
                  THEN pc' = AfterInstanceProfiles(d.force_detach_policies) /\ ret' = ret
                  ELSE Return(DeleteReturn(r))
  /\ UNCHANGED <<op, plan, d, old, iam, add, errs, attempts, got>>

\* deleteAwsIamRoleInstanceProfiles: the loop removing the role from each
\* listed profile.
RemoveRoleFromInstanceProfile ==
  /\ op = "Delete" /\ pc = "RemoveRoleFromInstanceProfile"
  /\ IF todo = <<>>
     THEN /\ pc' = AfterInstanceProfiles(d.force_detach_policies)
          /\ UNCHANGED <<log, iam, todo, ret>>
     ELSE \E r \in ChildAnswers(Head(todo) \in iam.profiles) :
            /\ Issue("RemoveRoleFromInstanceProfile", d.id, Head(todo), "", r)
            /\ iam' = IF r \in {OK, NoSuchEntity}
                      THEN [iam EXCEPT !.profiles = @ \ {Head(todo)}] ELSE iam
            /\ CASE RemoveProfileVerdict(r) = "continue" ->
                      todo' = Tail(todo) /\ UNCHANGED <<pc, ret>>
                 [] RemoveProfileVerdict(r) = "return" ->
                      /\ pc' = AfterInstanceProfiles(d.force_detach_policies)
                      /\ UNCHANGED <<todo, ret>>
                 [] OTHER -> todo' = todo /\ Return(DeleteReturn(r))
  /\ UNCHANGED <<op, plan, d, old, add, errs, attempts, listed, got>>

\* readAwsIamRolePolicyAttachments as deleteAwsIamRole calls it.
DeleteListAttachedRolePolicies ==
  /\ op = "Delete" /\ pc = "ListAttachedRolePolicies"
  /\ \E r \in RoleAnswers :
       /\ Issue("ListAttachedRolePolicies", d.id, "", "", r)
       /\ IF r = OtherError
          THEN UNCHANGED <<todo, listed>> /\ Return(DeleteReturn(r))
          ELSE /\ \E s \in Orders(iam.attached) : todo' = s
               /\ listed' = [listed EXCEPT !.attached = iam.attached]
               /\ pc' = "DetachRolePolicy"
               /\ ret' = ret
  /\ UNCHANGED <<op, plan, d, old, iam, add, errs, attempts, got>>

\* deleteAwsIamRolePolicyAttachments: one round of its loop.  When the loop
\* is through, the caller goes on at `next` with the members of nextSet to work on.
DetachLoop(rolename, next, nextSet) ==
  /\ pc = "DetachRolePolicy"
  /\ IF todo = <<>>
     THEN /\ pc' = next
          /\ \E s \in Orders(nextSet) : todo' = s
          /\ UNCHANGED <<log, iam, ret>>
     ELSE \E r \in ChildAnswers(Head(todo) \in iam.attached) :
            /\ Issue("DetachRolePolicy", rolename, Head(todo), "", r)
            /\ iam' = IF r \in {OK, NoSuchEntity}
                      THEN [iam EXCEPT !.attached = @ \ {Head(todo)}] ELSE iam
            /\ CASE DetachVerdict(r) = "continue" ->
                      todo' = Tail(todo) /\ UNCHANGED <<pc, ret>>
                 [] DetachVerdict(r) = "return" ->
                      /\ pc' = next
                      /\ \E s \in Orders(nextSet) : todo' = s
                      /\ ret' = ret
                 [] OTHER -> todo' = todo /\ Return("error")

DeleteDetachRolePolicy ==
  /\ op = "Delete"
  /\ DetachLoop(d.id, "ListRolePolicies", {})
  /\ UNCHANGED <<op, plan, d, old, add, errs, attempts, listed, got>>

\* readAwsIamRolePolicyNames as deleteAwsIamRole calls it.
DeleteListRolePolicies ==
  /\ op = "Delete" /\ pc = "ListRolePolicies"
  /\ \E r \in RoleAnswers :
       /\ Issue("ListRolePolicies", d.id, "", "", r)
       /\ IF r = OtherError
          THEN UNCHANGED <<todo, listed>> /\ Return(DeleteReturn(r))
          ELSE /\ \E s \in Orders({x.name : x \in iam.inline}) : todo' = s
               /\ listed' = [listed EXCEPT !.inline = {x.name : x \in iam.inline}]
               /\ pc' = "DeleteRolePolicy"
               /\ ret' = ret
  /\ UNCHANGED <<op, plan, d, old, iam, add, errs, attempts, got>>

\* deleteAwsIamRolePolicies: one round of its loop.
DeletePolicyLoop(rolename, next, nextSet) ==
  /\ pc = "DeleteRolePolicy"
  /\ IF todo = <<>>
     THEN /\ pc' = next
          /\ \E s \in Orders(nextSet) : todo' = s
          /\ UNCHANGED <<log, iam, ret>>
     ELSE \E r \in ChildAnswers(\E x \in iam.inline : x.name = Head(todo)) :
            /\ Issue("DeleteRolePolicy", rolename, Head(todo), "", r)
            /\ iam' = IF r \in {OK, NoSuchEntity}
                      THEN [iam EXCEPT !.inline = {x \in @ : x.name # Head(todo)}]
                      ELSE iam
            /\ CASE DeletePolicyVerdict(r) = "continue" ->
                      todo' = Tail(todo) /\ UNCHANGED <<pc, ret>>
                 [] DeletePolicyVerdict(r) = "return" ->
                      /\ pc' = next
                      /\ \E s \in Orders(nextSet) : todo' = s
                      /\ ret' = ret
                 [] OTHER -> todo' = todo /\ Return("error")

DeleteDeleteRolePolicy ==
  /\ op = "Delete"
  /\ DeletePolicyLoop(d.id, "DeleteRole", {})
  /\ UNCHANGED <<op, plan, d, old, add, errs, attempts, listed, got>>

\* What resource.Retry does with DeleteRole's answer: done, another attempt,
\* or give up with the error.
DeleteRoleRetryableAny(r) == r # OK

DeleteRoleRetryable(r) == r = DeleteConflict

\* deleteAwsIamRole: one DeleteRole attempt inside resource.Retry.  The
\* window may close while the call is in flight, and resource.Retry then
\* reports a timeout.  After a retryable answer the window is either still
\* open, or it has run out and resource.Retry reports a timeout or the
\* last error.
DeleteRole ==
  /\ op = "Delete" /\ pc = "DeleteRole"
  /\ \E r \in DeleteRoleAnswers \cup {NoAnswer} :
       /\ Issue("DeleteRole", d.id, "", "", r)
       /\ attempts' = attempts + 1
       /\ iam' \in IF r = OK THEN {NoRole}
                   ELSE IF r = NoAnswer /\ iam.exists /\ ~HasChildren
                        THEN {iam, NoRole}
                        ELSE {iam}
       /\ IF r = NoAnswer
          THEN ret' = ret /\ pc' = "DeleteRoleAfterTimeout"
          ELSE IF DeleteRoleRetryable(r)
               THEN \/ /\ attempts + 1 < MaxAttempts
                       /\ ret' = ret /\ pc' = "DeleteRole"
                    \/ ret' = ret /\ pc' = "DeleteRoleAfterTimeout"
                    \/ Return(DeleteReturn(r))
               ELSE Return(DeleteReturn(r))
  /\ UNCHANGED <<op, plan, d, old, todo, add, errs, listed, got>>

\* deleteAwsIamRole: the attempt made after resource.Retry timed out.
DeleteRoleAfterTimeout ==
  /\ op = "Delete" /\ pc = "DeleteRoleAfterTimeout"
  /\ \E r \in DeleteRoleAnswers :
       /\ Issue("DeleteRole", d.id, "", "", r)
       /\ iam' = IF r = OK THEN NoRole ELSE iam
       /\ Return(DeleteReturn(r))
  /\ UNCHANGED <<op, plan, d, old, todo, add, errs, attempts, listed, got>>

\* The resource data of a role in state, with nothing planned to change.
StateOf(i, force) ==
  [id |-> RoleName, name |-> RoleName, force_detach_policies |-> force,
   assume_role_policy |-> i.assume_role_policy, description |-> i.description,
   max_session_duration |-> i.max_session_duration,
   permissions_boundary |-> i.permissions_boundary, tags |-> i.tags,
   inline_policy |-> i.inline, managed_policy_arns |-> i.attached]

\* The roles IAM may hold when Delete starts.
DeleteRoles ==
  {[exists |-> TRUE, name |-> RoleName,
    assume_role_policy |-> "trust1", description |-> "desc1",
    max_session_duration |-> "3600", permissions_boundary |-> "", tags |-> "tags1",
    inline |-> i, attached |-> a, profiles |-> p] :
     i \in InlineSets, a \in SUBSET PolicyArns, p \in SUBSET InstanceProfiles}

InitDelete ==
  /\ op = "Delete"
  /\ pc = "ListInstanceProfilesForRole"
  /\ iam \in DeleteRoles \cup {NoRole}
  /\ \E force \in BOOLEAN : d = StateOf(iam, force)
  /\ old = d
  /\ plan = d
  /\ log = <<>>
  /\ todo = <<>>
  /\ add = {}
  /\ errs = <<>>
  /\ attempts = 0
  /\ listed = NoLists
  /\ got = <<>>
  /\ ret = "running"

NextDelete ==
  \/ ListInstanceProfilesForRole
  \/ RemoveRoleFromInstanceProfile
  \/ DeleteListAttachedRolePolicies
  \/ DeleteDetachRolePolicy
  \/ DeleteListRolePolicies
  \/ DeleteDeleteRolePolicy
  \/ DeleteRole
  \/ DeleteRoleAfterTimeout

SpecDelete == InitDelete /\ [][NextDelete]_vars

----------------------------------------------------------------------------
\* Bulk put and attach, used by Create and Update.

\* errs.ErrorOrNil() of a bulk put or attach.
BulkResultIgnoreErrors(e) == "nil"

BulkResult(e) == IF e = <<>> THEN "nil" ELSE "error"

\* resourceAwsIamRoleCreateInlinePolicies: one round of its loop, and its
\* return when the loop is through; the caller then goes on at `next`
\* with the members of nextSet to work on.
PutLoop(next, nextSet) ==
  /\ pc = "PutRolePolicy"
  /\ IF todo = <<>>
     THEN /\ IF BulkResult(errs) = "nil"
             THEN /\ pc' = next
                  /\ \E s \in Orders(nextSet) : todo' = s
                  /\ ret' = ret
             ELSE todo' = todo /\ Return("error")
          /\ UNCHANGED <<log, iam, errs>>
     ELSE \E r \in RoleAnswers :
            /\ Issue("PutRolePolicy", Head(todo).role, Head(todo).name,
                     Head(todo).policy, r)
            /\ iam' = IF r = OK
                      THEN [iam EXCEPT !.inline =
                              {x \in @ : x.name # Head(todo).name}
                                \cup {[name |-> Head(todo).name,
                                       policy |-> Head(todo).policy]}]
                      ELSE iam
            /\ errs' = IF r = OK THEN errs ELSE Append(errs, Head(todo).name)
            /\ todo' = Tail(todo)
            /\ UNCHANGED <<pc, ret>>

\* attachPolicyToRole (defined in another file of the package): one
\* AttachRolePolicy call, whose error it returns.
attachPolicyToRole(roleName, arn, r) ==
  Issue("AttachRolePolicy", roleName, arn, "", r)

\* resourceAwsIamRoleAttachManagedPolicies: one round of its loop, and its
\* return when the loop is through.
AttachLoop(roleName, next) ==
  /\ pc = "AttachRolePolicy"
  /\ IF todo = <<>>
     THEN /\ IF BulkResult(errs) = "nil"
             THEN pc' = next /\ ret' = ret
             ELSE Return("error")
          /\ UNCHANGED <<log, iam, todo, errs>>
     ELSE \E r \in RoleAnswers :
            /\ attachPolicyToRole(roleName, Head(todo), r)
            /\ iam' = IF r = OK
                      THEN [iam EXCEPT !.attached = @ \cup {Head(todo)}] ELSE iam
            /\ errs' = IF r = OK THEN errs ELSE Append(errs, Head(todo))
            /\ todo' = Tail(todo)
            /\ UNCHANGED <<pc, ret>>

\* expandIamInlinePolicies: the PutRolePolicyInput of each configured entry.
expandIamInlinePolicies(roleName, tfList) ==
  {[role |-> roleName, name |-> x.name, policy |-> x.policy] : x \in tfList}

----------------------------------------------------------------------------
\* Read: resourceAwsIamRoleRead, as the tail of Create and Update.

\* IAM answers GetRole and GetRolePolicy with the policy document
\* URL-encoded; url.QueryUnescape gives the document back.
UrlEncoded(doc) == <<"urlencoded", doc>>

QueryUnescape(s) == s[2]

\* flattenIamInlinePolicies over the apiObjects that
\* resourceAwsIamRoleListInlinePolicies built: name and policy of each.
flattenIamInlinePolicies(apiObjects) ==
  {[name |-> apiObjects[i].name, policy |-> apiObjects[i].policy] :
     i \in 1..Len(apiObjects)}

\* What Read does with GetRole's error: the role is gone, or the error.
ReadVerdict(r) ==
  IF r = OK THEN "continue" ELSE IF r = NoSuchEntity THEN "gone" ELSE "error"

\* The name Read sets: the RoleName of the role GetRole answered with.
ReadNameKept == d.name

ReadName == iam.name

\* GetRole and the attributes set from its answer.
GetRole ==
  /\ pc = "GetRole"
  /\ \E r \in RoleAnswers :
       /\ Issue("GetRole", d.id, "", "", r)
       /\ CASE ReadVerdict(r) = "continue" ->
                 /\ d' = [d EXCEPT
                            !.description = iam.description,
                            !.max_session_duration = iam.max_session_duration,
                            !.name = ReadName,
                            !.permissions_boundary =
                               IF iam.permissions_boundary # ""
                               THEN iam.permissions_boundary ELSE @,
                            !.tags = iam.tags,
                            !.assume_role_policy =
                               QueryUnescape(UrlEncoded(iam.assume_role_policy))]
                 /\ pc' = "ReadListRolePolicies"
                 /\ ret' = ret
            [] ReadVerdict(r) = "gone" ->
                 /\ d' = [d EXCEPT !.id = ""]
                 /\ Return("nil")
            [] OTHER -> d' = d /\ Return("error")
  /\ UNCHANGED <<op, plan, old, iam, todo, add, errs, attempts, listed, got>>

\* resourceAwsIamRoleListInlinePolicies: readAwsIamRolePolicyNames.
ReadListRolePolicies ==
  /\ pc = "ReadListRolePolicies"
  /\ \E r \in RoleAnswers :
       /\ Issue("ListRolePolicies", d.name, "", "", r)
       /\ IF r = OtherError
          THEN todo' = todo /\ Return("error")
          ELSE /\ \E s \in Orders({x.name : x \in iam.inline}) : todo' = s
               /\ pc' = "GetRolePolicy"
               /\ ret' = ret
  /\ got' = <<>>
  /\ UNCHANGED <<op, plan, d, old, iam, add, errs, attempts, listed>>

\* resourceAwsIamRoleListInlinePolicies: one GetRolePolicy of its loop; the
\* apiObject it appends carries the role name and the document only.  When
\* the loop is through, Read sets inline_policy.
GetRolePolicy ==
  /\ pc = "GetRolePolicy"
  /\ IF todo = <<>>
     THEN /\ d' = [d EXCEPT !.inline_policy = flattenIamInlinePolicies(got)]
          /\ pc' = "ReadListAttachedRolePolicies"
          /\ UNCHANGED <<log, iam, todo, got, ret>>
     ELSE \E r \in ChildAnswers(\E x \in iam.inline : x.name = Head(todo)) :
            /\ Issue("GetRolePolicy", d.name, Head(todo), "", r)
            /\ iam' = IF r = NoSuchEntity
                      THEN [iam EXCEPT !.inline = {x \in @ : x.name # Head(todo)}]
                      ELSE iam
            /\ IF r = OK
               THEN /\ got' = Append(got,
                         [role |-> d.name, name |-> "",
                          policy |-> QueryUnescape(UrlEncoded(
                                       (CHOOSE x \in iam.inline :
                                          x.name = Head(todo)).policy))])
                    /\ todo' = Tail(todo)
                    /\ UNCHANGED <<pc, ret>>
               ELSE UNCHANGED <<got, todo>> /\ Return("error")
            /\ d' = d
  /\ UNCHANGED <<op, plan, old, add, errs, attempts, listed>>

\* readAwsIamRolePolicyAttachments as Read calls it, and Read's return.
ReadListAttachedRolePolicies ==
  /\ pc = "ReadListAttachedRolePolicies"
  /\ \E r \in RoleAnswers :
       /\ Issue("ListAttachedRolePolicies", d.name, "", "", r)
       /\ IF r = OtherError
          THEN d' = d /\ Return("error")
          ELSE /\ d' = [d EXCEPT !.managed_policy_arns = iam.attached]
               /\ Return("nil")
  /\ UNCHANGED <<op, plan, old, iam, todo, add, errs, attempts, listed, got>>

----------------------------------------------------------------------------
\* Create: resourceAwsIamRoleCreate.

\* What resource.Retry does with CreateRole's answer.
CreateRoleRetryableAny(r) == r # OK

CreateRoleRetryable(r) == r = MalformedPolicyDocument

\* What resource.UniqueId and resource.PrefixedUniqueId generate.
UniqueId == "terraform-unique"

\* The name Create asks for: the configured one, or a generated one.
CreateName == IF d.name # "" THEN d.name ELSE UniqueId

\* The role CreateRole makes from the request.
CreatedRole ==
  [exists |-> TRUE, name |-> CreateName, assume_role_policy |-> d.assume_role_policy,
   description |-> d.description,
   max_session_duration |-> d.max_session_duration,
   permissions_boundary |-> d.permissions_boundary, tags |-> d.tags,
   inline |-> {}, attached |-> {}, profiles |-> {}]

\* After a successful CreateRole: the inline policies are put first.
AfterCreateRole ==
  /\ pc' = "PutRolePolicy"
  /\ \E s \in Orders(expandIamInlinePolicies(CreatedRole.name, d.inline_policy)) :
       todo' = s
  /\ ret' = ret

\* One CreateRole attempt inside resource.Retry.  The window may close
\* while the call is in flight, and resource.Retry then reports a timeout.
\* After a retryable answer the window is either still open, or it has run
\* out and resource.Retry reports a timeout or the last error.
CreateRole ==
  /\ op = "Create" /\ pc = "CreateRole"
  /\ \E r \in CreateRoleAnswers \cup {NoAnswer} :
       /\ Issue("CreateRole", CreateName, "", "", r)
       /\ attempts' = attempts + 1
       /\ iam' \in IF r = OK THEN {CreatedRole}
                   ELSE IF r = NoAnswer /\ ~iam.exists THEN {iam, CreatedRole}
                   ELSE {iam}
       /\ IF r = OK
          THEN AfterCreateRole
          ELSE /\ todo' = todo
               /\ IF r = NoAnswer
                  THEN ret' = ret /\ pc' = "CreateRoleAfterTimeout"
                  ELSE IF CreateRoleRetryable(r)
                       THEN \/ /\ attempts + 1 < MaxAttempts
                               /\ ret' = ret /\ pc' = "CreateRole"
                            \/ ret' = ret /\ pc' = "CreateRoleAfterTimeout"
                            \/ Return("error")
                       ELSE Return("error")
  /\ UNCHANGED <<op, plan, d, old, add, errs, listed, got>>

\* The attempt made after resource.Retry timed out.
CreateRoleAfterTimeout ==
  /\ op = "Create" /\ pc = "CreateRoleAfterTimeout"
  /\ \E r \in CreateRoleAnswers :
       /\ Issue("CreateRole", CreateName, "", "", r)
       /\ iam' = IF r = OK THEN CreatedRole ELSE iam
       /\ IF r = OK
          THEN AfterCreateRole
          ELSE todo' = todo /\ Return("error")
  /\ UNCHANGED <<op, plan, d, old, add, errs, attempts, listed, got>>

CreatePutRolePolicy ==
  /\ op = "Create"
  /\ PutLoop("AttachRolePolicy", d.managed_policy_arns)
  /\ UNCHANGED <<op, plan, d, old, add, attempts, listed, got>>

\* The attach loop; when it returns nil Create sets the ID and reads.
CreateAttachRolePolicy ==
  /\ op = "Create"
  /\ AttachLoop(iam.name, "GetRole")
  /\ d' = IF pc' = "GetRole" THEN [d EXCEPT !.id = iam.name] ELSE d
  /\ UNCHANGED <<op, plan, old, add, attempts, listed, got>>

\* The configurations Create is given.
CreateConfigs ==
  [id : {""}, name : {RoleName, ""}, force_detach_policies : {FALSE},
   assume_role_policy : {"trust1"}, description : {"desc1"},
   max_session_duration : {"3600"}, permissions_boundary : {"", "pb1"},
   tags : {"tags1"}, inline_policy : InlineSets,
   managed_policy_arns : SUBSET PolicyArns]

InitCreate ==
  /\ op = "Create"
  /\ pc = "CreateRole"
  /\ d \in CreateConfigs
  /\ old = d
  /\ plan = d
  /\ iam = NoRole
  /\ log = <<>>
  /\ todo = <<>>
  /\ add = {}
  /\ errs = <<>>
  /\ attempts = 0
  /\ listed = NoLists
  /\ got = <<>>
  /\ ret = "running"

NextCreate ==
  \/ CreateRole
  \/ CreateRoleAfterTimeout
  \/ CreatePutRolePolicy
  \/ CreateAttachRolePolicy
  \/ GetRole
  \/ ReadListRolePolicies
  \/ GetRolePolicy
  \/ ReadListAttachedRolePolicies

SpecCreate == InitCreate /\ [][NextCreate]_vars

----------------------------------------------------------------------------
\* Update: resourceAwsIamRoleUpdate.

Attributes ==
  {"assume_role_policy", "description", "max_session_duration",
   "permissions_boundary", "tags", "inline_policy", "managed_policy_arns"}

\* d.HasChange: the planned value differs from the prior one.
HasChangeAlways(k) == TRUE

HasChange(k) == old[k] # d[k]

\* os.Difference(ns) and ns.Difference(os) of d.GetChange's two sets.
RemoveAllOld(os, ns) == os

Remove(os, ns) == os \ ns

Additions(os, ns) == ns \ os

\* The steps whose call handles NoSuchEntity by clearing the ID.
GoneHandled == {"assume_role_policy", "description", "max_session_duration"}

UpdateVerdictIgnoreErrors(k, r) == "continue"

\* What a scalar step does with the answer to its call.
UpdateVerdict(k, r) ==
  IF r = OK THEN "continue"
  ELSE IF r = NoSuchEntity /\ k \in GoneHandled THEN "gone" ELSE "error"

\* The call a scalar step makes.
UpdateCall(k) ==
  CASE k = "assume_role_policy" -> "UpdateAssumeRolePolicy"
    [] k = "description" -> "UpdateRoleDescription"
    [] k = "max_session_duration" -> "UpdateRole"
    [] k = "permissions_boundary" ->
         IF d.permissions_boundary # "" THEN "PutRolePermissionsBoundary"
         ELSE "DeleteRolePermissionsBoundary"
    [] k = "tags" -> "IamRoleUpdateTags"

\* One scalar step: nothing without a change, else its call.
ScalarStep(k, next) ==
  /\ IF ~HasChange(k)
     THEN /\ pc' = next
          /\ UNCHANGED <<log, iam, d, ret>>
     ELSE \E r \in RoleAnswers :
            /\ Issue(UpdateCall(k), d.id, "", "", r)
            /\ iam' = IF r = OK THEN [iam EXCEPT ![k] = d[k]] ELSE iam
            /\ CASE UpdateVerdict(k, r) = "continue" ->
                      pc' = next /\ UNCHANGED <<d, ret>>
                 [] UpdateVerdict(k, r) = "gone" ->
                      d' = [d EXCEPT !.id = ""] /\ Return("nil")
                 [] OTHER -> d' = d /\ Return("error")
  /\ UNCHANGED <<op, plan, old, todo, add, errs, attempts, listed, got>>

UpdateAssumeRolePolicy ==
  /\ op = "Update" /\ pc = "UpdateAssumeRolePolicy"
  /\ ScalarStep("assume_role_policy", "UpdateRoleDescription")

UpdateRoleDescription ==
  /\ op = "Update" /\ pc = "UpdateRoleDescription"
  /\ ScalarStep("description", "UpdateRole")

UpdateRole ==
  /\ op = "Update" /\ pc = "UpdateRole"
  /\ ScalarStep("max_session_duration", "PermissionsBoundary")

UpdatePermissionsBoundary ==
  /\ op = "Update" /\ pc = "PermissionsBoundary"
  /\ ScalarStep("permissions_boundary", "Tags")

\* The tags step; keyvaluetags.IamRoleUpdateTags is taken as one call.
UpdateTags ==
  /\ op = "Update" /\ pc = "Tags"
  /\ ScalarStep("tags", "InlinePolicy")

\* The inline_policy step: the names to delete and the entries to put.
UpdateInlinePolicy ==
  /\ op = "Update" /\ pc = "InlinePolicy"
  /\ IF ~HasChange("inline_policy")
     THEN pc' = "ManagedPolicyArns" /\ UNCHANGED <<todo, add>>
     ELSE /\ \E s \in Orders({x.name : x \in Remove(old.inline_policy, d.inline_policy)}) :
               todo' = s
          /\ add' = expandIamInlinePolicies(d.name,
                      Additions(old.inline_policy, d.inline_policy))
          /\ pc' = "DeleteRolePolicy"
  /\ UNCHANGED <<op, plan, d, old, iam, log, errs, attempts, listed, got, ret>>

UpdateDeleteRolePolicy ==
  /\ op = "Update"
  /\ DeletePolicyLoop(d.name, "PutRolePolicy", add)
  /\ UNCHANGED <<op, plan, d, old, add, errs, attempts, listed, got>>

UpdatePutRolePolicy ==
  /\ op = "Update"
  /\ PutLoop("ManagedPolicyArns", {})
  /\ UNCHANGED <<op, plan, d, old, add, attempts, listed, got>>

\* The managed_policy_arns step: the ARNs to detach and those to attach.
UpdateManagedPolicyArns ==
  /\ op = "Update" /\ pc = "ManagedPolicyArns"
  /\ IF ~HasChange("managed_policy_arns")
     THEN pc' = "GetRole" /\ UNCHANGED <<todo, add>>
     ELSE /\ \E s \in Orders(Remove(old.managed_policy_arns, d.managed_policy_arns)) :
               todo' = s
          /\ add' = Additions(old.managed_policy_arns, d.managed_policy_arns)
          /\ pc' = "DetachRolePolicy"
  /\ UNCHANGED <<op, plan, d, old, iam, log, errs, attempts, listed, got, ret>>

UpdateDetachRolePolicy ==
  /\ op = "Update"
  /\ DetachLoop(d.name, "AttachRolePolicy", add)
  /\ UNCHANGED <<op, plan, d, old, add, errs, attempts, listed, got>>

UpdateAttachRolePolicy ==
  /\ op = "Update"
  /\ AttachLoop(d.name, "GetRole")
  /\ UNCHANGED <<op, plan, d, old, add, attempts, listed, got>>

\* The prior states Update starts from and the plans it is given: a plan
\* keeps a value or replaces it by a second one.
PriorStates ==
  [id : {RoleName}, name : {RoleName}, force_detach_policies : {FALSE},
   assume_role_policy : {"trust1"}, description : {"desc1"},
   max_session_duration : {"3600"}, permissions_boundary : {"", "pb1"},
   tags : {"tags1"},
   inline_policy : {S \in InlineSets : \A x \in S : x.policy = "doc1"},
   managed_policy_arns : SUBSET PolicyArns]

Plans ==
  [id : {RoleName}, name : {RoleName}, force_detach_policies : {FALSE},
   assume_role_policy : {"trust1", "trust2"}, description : {"desc1", "desc2"},
   max_session_duration : {"3600", "7200"}, permissions_boundary : {"", "pb1"},
   tags : {"tags1", "tags2"}, inline_policy : InlineSets,
   managed_policy_arns : SUBSET PolicyArns]

\* The role as IAM holds it when it matches a state.
RoleOf(st) ==
  [exists |-> TRUE, name |-> st.name, assume_role_policy |-> st.assume_role_policy,
   description |-> st.description,
   max_session_duration |-> st.max_session_duration,
   permissions_boundary |-> st.permissions_boundary, tags |-> st.tags,
   inline |-> st.inline_policy, attached |-> st.managed_policy_arns,
   profiles |-> {}]

InitUpdate ==
  /\ op = "Update"
  /\ pc = "UpdateAssumeRolePolicy"
  /\ old \in PriorStates
  /\ d \in Plans
  /\ plan = d
  /\ Cardinality({k \in Attributes : old[k] # d[k]}) <= MaxChanged
  /\ iam \in {RoleOf(old), NoRole}
  /\ log = <<>>
  /\ todo = <<>>
  /\ add = {}
  /\ errs = <<>>
  /\ attempts = 0
  /\ listed = NoLists
  /\ got = <<>>
  /\ ret = "running"

NextUpdate ==
  \/ UpdateAssumeRolePolicy
  \/ UpdateRoleDescription
  \/ UpdateRole
  \/ UpdatePermissionsBoundary
  \/ UpdateTags
  \/ UpdateInlinePolicy
  \/ UpdateDeleteRolePolicy
  \/ UpdatePutRolePolicy
  \/ UpdateManagedPolicyArns
  \/ UpdateDetachRolePolicy
  \/ UpdateAttachRolePolicy
  \/ GetRole
  \/ ReadListRolePolicies
  \/ GetRolePolicy
  \/ ReadListAttachedRolePolicies

SpecUpdate == InitUpdate /\ [][NextUpdate]_vars

\* Create and Update together: a resource is created, or one in state is
\* updated.
InitCreateUpdate == InitCreate \/ InitUpdate

NextCreateUpdate == NextCreate \/ NextUpdate

SpecCreateUpdate == InitCreateUpdate /\ [][NextCreateUpdate]_vars

\* Read on its own, as the refresh of a resource in state: the role may
\* have been changed outside of Terraform since the state was written, in
\* its permissions boundary, its description and its policies, or deleted.
ReadRoles ==
  {[exists |-> TRUE, name |-> RoleName,
    assume_role_policy |-> "trust1", description |-> ds,
    max_session_duration |-> "3600", permissions_boundary |-> b,
    tags |-> "tags1", inline |-> i, attached |-> a, profiles |-> {}] :
     ds \in {"desc1", "desc2"}, b \in {"", "pb1"},
     i \in InlineSets, a \in SUBSET PolicyArns}

InitRead ==
  /\ op = "Read"
  /\ pc = "GetRole"
  /\ \E prior \in {r \in ReadRoles : r.inline = {} /\ r.description = "desc1"} :
       d = StateOf(prior, FALSE)
  /\ old = d
  /\ plan = d
  /\ iam \in ReadRoles \cup {NoRole}
  /\ log = <<>>
  /\ todo = <<>>
  /\ add = {}
  /\ errs = <<>>
  /\ attempts = 0
  /\ listed = NoLists
  /\ got = <<>>
  /\ ret = "running"

NextRead ==
  \/ GetRole
  \/ ReadListRolePolicies
  \/ GetRolePolicy
  \/ ReadListAttachedRolePolicies

SpecRead == InitRead /\ [][NextRead]_vars

\* Create and Delete together, each handler running on to its return: the
\* handler is one sequential function, so a step that can be taken is taken.
InitCreateDelete == InitCreate \/ InitDelete

NextCreateDelete == NextCreate \/ NextDelete

SpecCreateDeleteFair ==
  InitCreateDelete /\ [][NextCreateDelete]_vars /\ WF_vars(NextCreateDelete)

----------------------------------------------------------------------------
\* Reading the log.

Calls(c) == {i \in 1..Len(log) : log[i].call = c}

\* Call c was issued for a before position k of the log.
IssuedBefore(c, a, k) == \E i \in Calls(c) : i < k /\ log[i].arg = a

\* No call with c1 comes after a call with c2.
Min(S) == CHOOSE x \in S : \A y \in S : x <= y

Precedes(c1, c2) == \A i \in Calls(c1), j \in Calls(c2) : i < j

\* A call failed with an error other than NoSuchEntity.
HardFailure(i) == log[i].res \notin {OK, NoSuchEntity}

CascadeCalls ==
  {"ListInstanceProfilesForRole", "RemoveRoleFromInstanceProfile",
   "ListAttachedRolePolicies", "DetachRolePolicy", "ListRolePolicies",
   "DeleteRolePolicy"}

----------------------------------------------------------------------------
\* Claims about Delete.

\* C1: in a Delete with force_detach_policies, when DeleteRole is called
\* and no call before it has failed with an error other than NoSuchEntity,
\* a DetachRolePolicy has been issued for every listed managed policy and
\* a DeleteRolePolicy for every listed inline policy name.
C1_StrippedBeforeDeleteRole ==
  (op = "Delete" /\ d.force_detach_policies)
  => \A k \in Calls("DeleteRole") :
       (\A i \in 1..(k - 1) : ~HardFailure(i))
       => /\ \A a \in listed.attached : IssuedBefore("DetachRolePolicy", a, k)
          /\ \A n \in listed.inline : IssuedBefore("DeleteRolePolicy", n, k)

\* C2: in a Delete with force_detach_policies the calls come in cascade
\* order (remove from instance profiles, detach, delete inline policies,
\* delete the role), and once a step of the cascade has returned an error
\* DeleteRole is not called.
C2_CascadeOrder ==
  (op = "Delete" /\ d.force_detach_policies)
  => /\ Precedes("RemoveRoleFromInstanceProfile", "DetachRolePolicy")
     /\ Precedes("DetachRolePolicy", "DeleteRolePolicy")
     /\ Precedes("DeleteRolePolicy", "DeleteRole")
     /\ Precedes("RemoveRoleFromInstanceProfile", "DeleteRole")
     /\ Precedes("DetachRolePolicy", "DeleteRole")
     /\ Precedes("RemoveRoleFromInstanceProfile", "DeleteRolePolicy")
     /\ (\E i \in 1..Len(log) : log[i].call \in CascadeCalls /\ HardFailure(i))
          => Calls("DeleteRole") = {}

\* C2: a forced Delete that went through the whole cascade, two children of
\* each kind, and called DeleteRole.
C2_Witness ==
  /\ op = "Delete" /\ d.force_detach_policies /\ pc = "done"
  /\ Cardinality(Calls("RemoveRoleFromInstanceProfile")) = 2
  /\ Cardinality(Calls("DetachRolePolicy")) = 2
  /\ Cardinality(Calls("DeleteRolePolicy")) = 2
  /\ Calls("DeleteRole") # {}

\* C10 as claimed: a Delete without force_detach_policies issues no
\* RemoveRoleFromInstanceProfile call.
C10_NoRemoveWithoutForce ==
  (op = "Delete" /\ ~d.force_detach_policies)
  => Calls("RemoveRoleFromInstanceProfile") = {}

\* C10 as amended: Delete removes the role from its instance profiles
\* whatever force_detach_policies is; the flag gates only the policies.
\* Once Delete is past deleteAwsIamRoleInstanceProfiles without an error
\* (it lists policies or calls DeleteRole), RemoveRoleFromInstanceProfile
\* has been issued for every listed profile, and without the flag no
\* policy is listed, detached or deleted.
C10_RemoveWhateverForce ==
  op = "Delete"
  => /\ \A k \in Calls("DeleteRole") \cup Calls("ListAttachedRolePolicies") :
          \A p \in listed.profiles :
            IssuedBefore("RemoveRoleFromInstanceProfile", p, k)
     /\ ~d.force_detach_policies
          => \A i \in 1..Len(log) :
               log[i].call \in {"ListInstanceProfilesForRole",
                                "RemoveRoleFromInstanceProfile", "DeleteRole"}

\* C10: a Delete without the flag removed the role from two instance
\* profiles and called DeleteRole.
C10_Witness ==
  /\ op = "Delete" /\ ~d.force_detach_policies
  /\ Cardinality(Calls("RemoveRoleFromInstanceProfile")) = 2
  /\ Calls("DeleteRole") # {}

----------------------------------------------------------------------------
\* Claims about Update.

\* The attribute a mutating call of Update belongs to.
AttributeOf(c) ==
  CASE c = "UpdateAssumeRolePolicy" -> "assume_role_policy"
    [] c = "UpdateRoleDescription" -> "description"
    [] c = "UpdateRole" -> "max_session_duration"
    [] c \in {"PutRolePermissionsBoundary", "DeleteRolePermissionsBoundary"} ->
         "permissions_boundary"
    [] c = "IamRoleUpdateTags" -> "tags"
    [] c \in {"DeleteRolePolicy", "PutRolePolicy"} -> "inline_policy"
    [] c \in {"DetachRolePolicy", "AttachRolePolicy"} -> "managed_policy_arns"
    [] OTHER -> "none"

Changed(k) == old[k] # plan[k]

Args(c) == {log[i].arg : i \in Calls(c)}

\* The members of a batch whose call failed.
Failed(c) == {log[i].arg : i \in {j \in Calls(c) : log[j].res # OK}}

\* Update is through its steps: it is in its final Read or past it.
ReachedRead ==
  op = "Update" /\ (pc = "GetRole" \/ Calls("GetRole") # {})

\* C3: when managed_policy_arns changes from O to N, DetachRolePolicy is
\* issued only for ARNs of O \ N and AttachRolePolicy only for ARNs of
\* N \ O, each once, all detaches before any attach; an Update that gets
\* through the step has issued them for exactly O \ N and N \ O, and if
\* all those calls succeeded on a role whose attachments were O, the
\* attachments are N.
C3_ManagedPolicyDiff ==
  (op = "Update" /\ Changed("managed_policy_arns"))
  => LET O == old.managed_policy_arns
         N == plan.managed_policy_arns
     IN /\ Args("DetachRolePolicy") \subseteq O \ N
        /\ Args("AttachRolePolicy") \subseteq N \ O
        /\ Cardinality(Calls("DetachRolePolicy")) = Cardinality(Args("DetachRolePolicy"))
        /\ Cardinality(Calls("AttachRolePolicy")) = Cardinality(Args("AttachRolePolicy"))
        /\ Precedes("DetachRolePolicy", "AttachRolePolicy")
        /\ ReachedRead
             => /\ Args("DetachRolePolicy") = O \ N
                /\ Args("AttachRolePolicy") = N \ O
                /\ (\A i \in Calls("DetachRolePolicy") \cup Calls("AttachRolePolicy") :
                      log[i].res = OK)
                     => iam.attached = N

\* C3: an Update from {arn1} to {arn2} detached arn1, attached arn2 and
\* left the role with {arn2}.
C3_Witness ==
  /\ op = "Update" /\ pc = "done" /\ ret = "nil"
  /\ old.managed_policy_arns = {"arn1"}
  /\ plan.managed_policy_arns = {"arn2"}
  /\ Args("DetachRolePolicy") = {"arn1"}
  /\ Args("AttachRolePolicy") = {"arn2"}
  /\ iam.attached = {"arn2"}

\* C4: when inline_policy changes from O to N, Update issues
\* DeleteRolePolicy for the names of O \ N and then PutRolePolicy for the
\* entries of N \ O, and an Update that returns success on a role whose
\* inline policies were O leaves the role with the inline policies N.
C4_InlinePolicyDiff ==
  (op = "Update" /\ Changed("inline_policy"))
  => LET O == old.inline_policy
         N == plan.inline_policy
     IN /\ Precedes("DeleteRolePolicy", "PutRolePolicy")
        /\ (pc = "done" /\ ret = "nil" /\ d.id # "")
             => /\ Args("DeleteRolePolicy") = {x.name : x \in O \ N}
                /\ Args("PutRolePolicy") = {x.name : x \in N \ O}
                /\ iam.inline = N

\* C5: Update issues the mutating call of an attribute only if the
\* attribute changed.
C5_OnlyChangedAttributes ==
  op = "Update"
  => \A i \in 1..Len(log) :
       AttributeOf(log[i].call) # "none" => Changed(AttributeOf(log[i].call))

\* C5: an Update with only description and tags changed made exactly those
\* two mutating calls, and the calls of Read.
C5_Witness ==
  /\ op = "Update" /\ pc = "done" /\ ret = "nil"
  /\ {k \in Attributes : Changed(k)} = {"description", "tags"}
  /\ {log[i].call : i \in 1..Len(log)} =
       {"UpdateRoleDescription", "IamRoleUpdateTags", "GetRole",
        "ListRolePolicies", "GetRolePolicy", "ListAttachedRolePolicies"}

\* C6: when a call of Update or of its Read on a role that is gone is
\* answered NoSuchEntity, the operation ends there, with the ID cleared
\* and no error.
C6_GoneClearsState ==
  (op = "Update" /\ ~iam.exists)
  => \A i \in 1..Len(log) :
       log[i].res = NoSuchEntity
       => i = Len(log) /\ pc = "done" /\ ret = "nil" /\ d.id = ""

\* C7: bulk put, attach and detach go on after a failed call: when Update
\* returns the error of a batch, it has issued the call for every member
\* of the batch, and the error of a bulk put or attach names every member
\* whose call failed.
C7_BulkContinueOnError ==
  (op = "Update" /\ pc = "done" /\ ret = "error" /\ log # <<>>)
  => LET c == log[Len(log)].call
     IN /\ c = "PutRolePolicy"
             => /\ Args(c) = {x.name : x \in plan.inline_policy \ old.inline_policy}
                /\ Range(errs) = Failed(c)
        /\ c = "AttachRolePolicy"
             => /\ Args(c) = plan.managed_policy_arns \ old.managed_policy_arns
                /\ Range(errs) = Failed(c)
        /\ c = "DetachRolePolicy"
             => Args(c) = old.managed_policy_arns \ plan.managed_policy_arns

----------------------------------------------------------------------------
\* Claims about Create.

\* C8 as claimed: CreateRole is attempted again only after it failed with
\* MalformedPolicyDocument and only inside the retry window, and any other
\* failure ends Create with an error and no further call.
C8_RetryOnlyInWindow ==
  op = "Create"
  => /\ \A i \in Calls("CreateRole") :
          /\ i > 1 => log[i - 1].res = MalformedPolicyDocument
          /\ log[i].res = OtherError
               => i = Len(log) /\ pc = "done" /\ ret = "error"
     /\ Cardinality(Calls("CreateRole")) <= attempts

\* C8 as amended: inside the retry window CreateRole is attempted again
\* only after it failed with MalformedPolicyDocument; it is attempted once
\* more after the window has run out (on a timeout of the retry, which
\* follows a MalformedPolicyDocument failure or a call that had not
\* answered); any other failure ends Create with an error and no further
\* call.
C8_RetryOnlyMalformed ==
  op = "Create"
  => /\ \A i \in Calls("CreateRole") :
          /\ i > 1 => /\ log[i - 1].call = "CreateRole"
                      /\ log[i - 1].res \in {MalformedPolicyDocument, NoAnswer}
          /\ (i > 1 /\ i <= attempts) => log[i - 1].res = MalformedPolicyDocument
          /\ log[i].res = OtherError
               => i = Len(log) /\ pc = "done" /\ ret = "error"
     /\ Cardinality(Calls("CreateRole")) <= attempts + 1
     /\ attempts <= MaxAttempts
     /\ (\E i \in Calls("CreateRole") : log[i].res # OK /\ i = Len(log) /\ pc = "done")
          => Calls("PutRolePolicy") \cup Calls("AttachRolePolicy") = {}

\* C8: two attempts inside the window failed with MalformedPolicyDocument,
\* and the attempt made after the window had run out failed with another
\* error, which ended Create.
C8_Witness ==
  /\ op = "Create" /\ pc = "done" /\ ret = "error"
  /\ attempts = 2
  /\ Len(log) = 3
  /\ log[1].res = MalformedPolicyDocument
  /\ log[2].res = MalformedPolicyDocument
  /\ log[3].call = "CreateRole" /\ log[3].res = OtherError

\* C9: Create puts and attaches only after a CreateRole has succeeded, puts
\* before it attaches, and attaches nothing once a put has failed.
C9_ChildrenAfterRole ==
  op = "Create"
  => /\ \A i \in Calls("PutRolePolicy") \cup Calls("AttachRolePolicy") :
          \E j \in Calls("CreateRole") : j < i /\ log[j].res = OK
     /\ Precedes("PutRolePolicy", "AttachRolePolicy")
     /\ (\E i \in Calls("PutRolePolicy") : log[i].res # OK)
          => Calls("AttachRolePolicy") = {}

\* C9: a Create that put two inline policies and attached two managed ones.
C9_Witness ==
  /\ op = "Create" /\ pc = "done" /\ ret = "nil"
  /\ Cardinality(Calls("PutRolePolicy")) = 2
  /\ Cardinality(Calls("AttachRolePolicy")) = 2

----------------------------------------------------------------------------
\* Further claims about Delete.

\* C11: a Delete without force_detach_policies issues no list, detach or
\* delete call for policies and leaves the role's managed and inline
\* policies as they were; if the role has such children, every DeleteRole
\* call is refused, a DeleteConflict answer is followed by another attempt
\* or ends Delete, and Delete returns an error with the role and its
\* children still there.
C11_PoliciesKeptWithoutForce ==
  (op = "Delete" /\ ~d.force_detach_policies)
  => /\ Calls("ListAttachedRolePolicies") \cup Calls("DetachRolePolicy")
          \cup Calls("ListRolePolicies") \cup Calls("DeleteRolePolicy") = {}
     /\ iam.exists => /\ iam.inline = plan.inline_policy
                      /\ iam.attached = plan.managed_policy_arns
     /\ (plan.inline_policy # {} \/ plan.managed_policy_arns # {})
          => /\ iam.exists
             /\ \A i \in Calls("DeleteRole") :
                  /\ log[i].res # OK
                  /\ log[i].res = DeleteConflict
                       => \/ i < Len(log) /\ log[i + 1].call = "DeleteRole"
                          \/ i = Len(log) /\ pc \in {"DeleteRole", "DeleteRoleAfterTimeout"}
                          \/ i = Len(log) /\ pc = "done" /\ ret = "error"
             /\ pc = "done" => ret = "error"

\* C11: a Delete without the flag on a role with an attached policy was
\* refused twice with DeleteConflict and returned the error.
C11_Witness ==
  /\ op = "Delete" /\ ~d.force_detach_policies
  /\ plan.managed_policy_arns # {} /\ iam.attached = plan.managed_policy_arns
  /\ pc = "done" /\ ret = "error"
  /\ Cardinality(Calls("DeleteRole")) >= 2
  /\ \A i \in Calls("DeleteRole") : log[i].res = DeleteConflict

----------------------------------------------------------------------------
\* Claims about Read.

\* Read ran to its end on an existing role and returned nil.
ReadSucceeded ==
  /\ pc = "done" /\ ret = "nil" /\ d.id # ""
  /\ \E i \in Calls("GetRole") : log[i].res = OK

\* C12: after a successful Read of an existing role inline_policy holds one
\* entry per inline policy of the role, with its name and its document, and
\* managed_policy_arns holds exactly the ARNs attached to the role.
C12_ReadPopulatesChildren ==
  ReadSucceeded
  => /\ d.inline_policy = iam.inline
     /\ d.managed_policy_arns = iam.attached

\* C13: in Delete a DeleteRole refused with DeleteConflict is followed by
\* another attempt unless the window has run out; a DeleteRole that failed
\* with any other error code is the last call, no DeleteRole follows a
\* DeleteRole that ended otherwise than with DeleteConflict or without an
\* answer (and inside the window only one refused with DeleteConflict),
\* and Delete returns that error, or nil when it is NoSuchEntity.
C13_DeleteRoleRetry ==
  op = "Delete"
  => \A i \in Calls("DeleteRole") :
       /\ log[i].res = DeleteConflict
            => \/ i < Len(log) /\ log[i + 1].call = "DeleteRole"
               \/ i = Len(log) /\ pc \in {"DeleteRole", "DeleteRoleAfterTimeout"}
               \/ i = Len(log) /\ pc = "done" /\ ret = "error"
       /\ log[i].res \in {OtherError, NoSuchEntity}
            => /\ i = Len(log) /\ pc = "done"
               /\ ret = IF log[i].res = NoSuchEntity THEN "nil" ELSE "error"
       /\ (i > 1 /\ log[i - 1].call = "DeleteRole")
            => log[i - 1].res \in {DeleteConflict, NoAnswer}
       /\ (i > Min(Calls("DeleteRole"))
           /\ (i - Min(Calls("DeleteRole"))) + 1 <= attempts)
            => log[i - 1].res = DeleteConflict

\* C13: a first DeleteRole was refused with DeleteConflict, a second one
\* inside the window failed with another error, and Delete returned it.
C13_Witness ==
  /\ op = "Delete" /\ pc = "done" /\ ret = "error"
  /\ attempts = 2
  /\ Len(log) >= 2
  /\ log[Len(log) - 1].call = "DeleteRole"
  /\ log[Len(log) - 1].res = DeleteConflict
  /\ log[Len(log)].call = "DeleteRole"
  /\ log[Len(log)].res = OtherError

----------------------------------------------------------------------------
\* Claims about the role name.

\* The IAM calls the resource makes; none of them renames a role.
KnownCalls ==
  {"CreateRole", "GetRole", "ListRolePolicies", "GetRolePolicy",
   "ListAttachedRolePolicies", "UpdateAssumeRolePolicy",
   "UpdateRoleDescription", "UpdateRole", "PutRolePermissionsBoundary",
   "DeleteRolePermissionsBoundary", "IamRoleUpdateTags", "DeleteRolePolicy",
   "PutRolePolicy", "DetachRolePolicy", "AttachRolePolicy"}

\* C14: after a successful Create or Read the name attribute equals the
\* resource ID (and is the name of the role); every call of an Update is
\* one of the calls above, none of which renames, and names the role by
\* the one name the resource had before, whether taken from the ID or from
\* the name attribute; the role keeps its name.
C14_NameFixed ==
  /\ (op \in {"Create", "Update"} /\ ReadSucceeded)
       => d.name = d.id /\ d.id = iam.name
  /\ op = "Update"
       => /\ \A i \in 1..Len(log) :
               log[i].role = old.id /\ log[i].call \in KnownCalls
          /\ iam.exists => iam.name = old.id
          /\ d.id \in {old.id, ""}
  /\ op = "Create"
       => \A i \in 1..Len(log) : log[i].role = CreatedRole.name

\* C14: a Create without a configured name made its role under a
\* generated name, put and attached children, and read it back.
C14_Witness ==
  /\ op = "Create" /\ plan.name = "" /\ ReadSucceeded
  /\ d.id = UniqueId
  /\ Calls("PutRolePolicy") # {} /\ Calls("AttachRolePolicy") # {}

----------------------------------------------------------------------------
\* Further claims about Create.

\* C15: whenever Create returns an error, either no CreateRole call
\* succeeded or the resource ID is set to the name of the created role.
C15_NoUntrackedRole ==
  (op = "Create" /\ pc = "done" /\ ret = "error")
  => \/ \A i \in Calls("CreateRole") : log[i].res # OK
     \/ d.id # "" /\ d.id = iam.name

----------------------------------------------------------------------------
\* Claims about the retry loops.

\* The call under resource.Retry in the running operation.
RetriedCall == IF op = "Create" THEN "CreateRole" ELSE "DeleteRole"

\* The answers resource.Retry retries on in the running operation.
RetryableAnswer ==
  IF op = "Create" THEN MalformedPolicyDocument ELSE DeleteConflict

\* The n-th call of the retried call.
Nth(n) == CHOOSE i \in Calls(RetriedCall) :
            Cardinality({j \in Calls(RetriedCall) : j <= i}) = n

Last(S) == CHOOSE x \in S : \A y \in S : y <= x

\* The operation has returned, and the window of its retry loop had run
\* out: the last attempt inside it was refused with the retryable error or
\* had not answered.
WindowExpired ==
  /\ op \in {"Create", "Delete"} /\ pc = "done"
  /\ attempts >= 1
  /\ log[Nth(attempts)].res \in {RetryableAnswer, NoAnswer}

\* C16 as claimed, its safety half: once the window has expired exactly one
\* further attempt is made outside the loop, and its result is what the
\* operation returns.
C16_ExactlyOneAfterWindow ==
  WindowExpired
  => /\ Cardinality(Calls(RetriedCall)) = attempts + 1
     /\ ret = IF log[Last(Calls(RetriedCall))].res \in {OK, NoSuchEntity}
              THEN "nil" ELSE "error"

\* What holds of the attempts in every state: no more than MaxAttempts
\* inside the window and at most one after it, that one only after an
\* attempt refused with the retryable error or left without an answer; a
\* Delete returns what its last DeleteRole gave (NoSuchEntity being
\* success), and a Create whose last CreateRole failed returns an error.
AttemptsBounded ==
  op \in {"Create", "Delete"}
  => /\ attempts <= MaxAttempts
     /\ Cardinality(Calls(RetriedCall)) <= attempts + 1
     /\ Cardinality(Calls(RetriedCall)) = attempts + 1
          => /\ attempts >= 1
             /\ log[Nth(attempts)].res \in {RetryableAnswer, NoAnswer}
     /\ (pc = "done" /\ Calls(RetriedCall) # {})
          => /\ log[Last(Calls(RetriedCall))].res # NoAnswer
             /\ op = "Delete"
                  => ret = IF log[Last(Calls(RetriedCall))].res \in {OK, NoSuchEntity}
                           THEN "nil" ELSE "error"
             /\ (op = "Create" /\ log[Last(Calls(RetriedCall))].res # OK)
                  => ret = "error"

\* C16 as amended: Create and Delete each eventually return, whatever the
\* answers to CreateRole and DeleteRole are, and the attempts are bounded
\* as above.
C16_BoundedRetry == <>(pc = "done") /\ []AttemptsBounded

\* C16: DeleteRole was refused with DeleteConflict at every attempt inside
\* the window and at the attempt after it, and Delete returned the error.
C16_Witness ==
  /\ op = "Delete" /\ pc = "done" /\ ret = "error"
  /\ attempts = MaxAttempts
  /\ Cardinality(Calls("DeleteRole")) = MaxAttempts + 1
  /\ \A i \in Calls("DeleteRole") : log[i].res = DeleteConflict

----------------------------------------------------------------------------
\* Further claims about Update.

\* The place of each call's step in Update; the final Read comes last.
StepOf(c) ==
  CASE c = "UpdateAssumeRolePolicy" -> 1
    [] c = "UpdateRoleDescription" -> 2
    [] c = "UpdateRole" -> 3
    [] c \in {"PutRolePermissionsBoundary", "DeleteRolePermissionsBoundary"} -> 4
    [] c = "IamRoleUpdateTags" -> 5
    [] c \in {"DeleteRolePolicy", "PutRolePolicy"} -> 6
    [] c \in {"DetachRolePolicy", "AttachRolePolicy"} -> 7
    [] OTHER -> 8

\* The answer r to call c makes its step return an error.
StepFails(c, r) ==
  /\ r # OK
  /\ StepOf(c) < 8
  /\ r = NoSuchEntity => /\ StepOf(c) > 3
                         /\ c \notin {"DeleteRolePolicy", "DetachRolePolicy"}

\* C17: the calls of an Update come in the order of its steps (no call is
\* followed by a call of an earlier step), the final Read last; once a call
\* has made its step fail, nothing but the rest of that step's own batch
\* (puts or attaches) is issued, in particular no call of a later step and
\* no call of Read, and Update returns an error; what earlier steps changed
\* stays changed.
C17_StopAtFirstError ==
  op = "Update"
  => \A i \in 1..Len(log) :
       LET c == log[i].call
           r == log[i].res
       IN /\ i < Len(log) => StepOf(c) <= StepOf(log[i + 1].call)
          /\ StepFails(c, r)
               => /\ i < Len(log)
                       => /\ log[i + 1].call = c
                          /\ c \in {"PutRolePolicy", "AttachRolePolicy"}
                  /\ pc = "done" => ret = "error"
          /\ (r = OK /\ StepOf(c) <= 5)
               => iam[AttributeOf(c)] = plan[AttributeOf(c)]

\* C17: an Update changed the description, then failed to detach a managed
\* policy and returned the error without reading; the new description
\* stays.
C17_Witness ==
  /\ op = "Update" /\ pc = "done" /\ ret = "error"
  /\ Len(log) = 2
  /\ log[1].call = "UpdateRoleDescription" /\ log[1].res = OK
  /\ log[2].call = "DetachRolePolicy" /\ log[2].res = OtherError
  /\ iam.description = plan.description /\ iam.description # old.description

----------------------------------------------------------------------------
\* Delete of a role that is not there.

\* C18: a Delete all of whose IAM calls were answered NoSuchEntity returns
\* nil, with force_detach_policies or without, after the list calls of the
\* cascade and one DeleteRole; and a Delete that returned nil after a
\* successful DeleteRole leaves no role, which is where such a second
\* Delete starts.
C18_DeleteOfMissingRole ==
  op = "Delete"
  => /\ (pc = "done" /\ \A i \in 1..Len(log) : log[i].res = NoSuchEntity)
          => /\ ret = "nil"
             /\ [i \in 1..Len(log) |-> log[i].call] =
                  IF d.force_detach_policies
                  THEN <<"ListInstanceProfilesForRole", "ListAttachedRolePolicies",
                         "ListRolePolicies", "DeleteRole">>
                  ELSE <<"ListInstanceProfilesForRole", "DeleteRole">>
     /\ (pc = "done" /\ \E i \in Calls("DeleteRole") : log[i].res = OK)
          => ret = "nil" /\ iam = NoRole

\* C18: a forced Delete of a role that is not there went through its four
\* calls, each answered NoSuchEntity, and returned nil.
C18_Witness ==
  /\ op = "Delete" /\ d.force_detach_policies /\ pc = "done" /\ ret = "nil"
  /\ ~iam.exists
  /\ Len(log) = 4
  /\ \A i \in 1..Len(log) : log[i].res = NoSuchEntity

----------------------------------------------------------------------------
\* Further claims about Read.

\* C19: after a successful Read of an existing role permissions_boundary is
\* the role's current permissions boundary, the empty value included.
C19_BoundaryRefreshed ==
  ReadSucceeded => d.permissions_boundary = iam.permissions_boundary

====
